---- MODULE Spec2Model ----
(***************************************************************************)
(* The ikuncode status-line segment (src/src/core/segments/ikuncode.rs):   *)
(* a cache-aside collector over one JSON cache file and two HTTP queries.  *)
(*                                                                         *)
(* Time is counted in ticks, TicksPerSec ticks to the second, so that the  *)
(* truncation of num_seconds() is visible.  Money is counted in millionths *)
(* of a currency unit: quota / 500000 is a finite decimal with at most six *)
(* fractional digits.  The cache file is a sequence of tokens (punctuation,*)
(* field names, the characters of the two numbers, one string token), the  *)
(* unit in which a write at offset 0 overwrites what is there.             *)
(* A u64 is a pair [hi, lo] standing for hi * 2^63 + lo with hi in {0, 1}; *)
(* an i64 is such a pair with hi in {-1, 0}.                               *)
(***************************************************************************)
EXTENDS Integers, Sequences, FiniteSets, TLC

VARIABLES
    now,          \* the UTC clock, in ticks
    home,         \* dirs::home_dir() is Some
    file,         \* the cache file: [exists, content]
    pc,           \* per invocation slot: position inside collect
    conf,         \* per slot: [timeout, cache_duration] read from the options
    cached_data,  \* per slot: the Option<IkunCodeCache> load_cache returned
    fetched,      \* per slot: what fetch_data returned, with the two responses
    pending,      \* per slot: the IkunCodeCache handed to save_cache and its JSON
    result,       \* per slot: what collect returned
    io,           \* per slot: what the invocation did to the outside world
    lastWriter,   \* the slot whose write to the cache file finished last (0: none)
    lastSave      \* history: the successful save the file still holds, [at, d], kept
                  \* while the invocations since are authenticated and configured
                  \* with the same cache_duration d

vars == <<now, home, file, pc, conf, cached_data, fetched, pending, result, io, lastWriter,
          lastSave>>

---------------------------------------------------------------------------
(* Bounds of the model *)

\* the clock runs from 0 to MaxNow ticks
MaxNow == 3

\* ticks per second
TicksPerSec == 2

\* the invocation slots; slot 2 is used only when invocations overlap
Procs == {1, 2}

---------------------------------------------------------------------------
(* Program constants *)

QuotaPerUnit == 500000

DefaultTimeout == 5

DefaultCacheDuration == 180

\* millionths of a currency unit in one quota unit: 1000000 / 500000
MicroPerQuota == (1000 * 1000) \div QuotaPerUnit

None == [some |-> FALSE]

Some(v) == [some |-> TRUE, v |-> v]

---------------------------------------------------------------------------
(* Text: tokens, numbers, timestamps, the JSON of a cache record *)

Sym(s) == [ty |-> "sym", s |-> s, n |-> 0, f |-> 0, o |-> 0]

\* a JSON string that is no RFC3339 timestamp
GarbageStr == [ty |-> "str", s |-> "not-a-date", n |-> 0, f |-> 0, o |-> 0]

\* the RFC3339 text of the instant t (ticks) written with UTC offset o seconds:
\* local seconds n, fraction f (in ticks), offset o
Rfc3339(t, o) ==
    [ty |-> "str", s |-> "rfc3339",
     n |-> (t - (t % TicksPerSec)) \div TicksPerSec + o,
     f |-> t % TicksPerSec, o |-> o]

\* the text cut to whole seconds
to_rfc3339_whole_seconds(t) == Rfc3339(t - (t % TicksPerSec), 0)

\* DateTime<Utc>::to_rfc3339: offset +00:00, the sub-second part kept
to_rfc3339(t) == Rfc3339(t, 0)

parse_from_rfc3339(str) ==
    IF str.ty = "str" /\ str.s = "rfc3339"
    THEN [ok |-> TRUE, local |-> str.n, frac |-> str.f, offset |-> str.o]
    ELSE [ok |-> FALSE]

\* the UTC instant of a parsed timestamp, in ticks
with_timezone_utc(dt) == (dt.local - dt.offset) * TicksPerSec + dt.frac

\* chrono's Duration::num_seconds: whole seconds, truncated toward zero
num_seconds(ticks) ==
    IF ticks >= 0 THEN ticks \div TicksPerSec ELSE -((-ticks) \div TicksPerSec)

DigitChars == <<"0", "1", "2", "3", "4", "5", "6", "7", "8", "9">>

DigitOf(c) == CHOOSE d \in 0..9 : DigitChars[d + 1] = c

IsDigit(tok) == tok.ty = "sym" /\ \E d \in 0..9 : DigitChars[d + 1] = tok.s

RECURSIVE NatDigits(_)
NatDigits(k) ==
    IF k < 10 THEN <<Sym(DigitChars[k + 1])>>
    ELSE NatDigits(k \div 10) \o <<Sym(DigitChars[(k % 10) + 1])>>

\* k as exactly width digits, leading zeros kept
RECURSIVE PaddedDigits(_, _)
PaddedDigits(k, width) ==
    IF width = 1 THEN <<Sym(DigitChars[(k % 10) + 1])>>
    ELSE PaddedDigits(k \div 10, width - 1) \o <<Sym(DigitChars[(k % 10) + 1])>>

\* the fraction fr (0 <= fr < 10^width) as digits, trailing zeros dropped, at
\* least one digit kept
RECURSIVE FracDigits(_, _)
FracDigits(fr, width) ==
    IF width > 1 /\ fr % 10 = 0 THEN FracDigits(fr \div 10, width - 1)
    ELSE PaddedDigits(fr, width)

Million == 1000 * 1000

\* serde_json's text of a non-negative f64 amount (shortest decimal): "2.0", "0.5"
NumberText(micro) ==
    NatDigits(micro \div Million) \o <<Sym(".")>> \o FracDigits(micro % Million, 6)

RECURSIVE DigitsValue(_)
DigitsValue(ds) ==
    IF Len(ds) = 0 THEN 0
    ELSE 10 * DigitsValue(SubSeq(ds, 1, Len(ds) - 1)) + DigitOf(ds[Len(ds)].s)

RECURSIVE Pow10(_)
Pow10(k) == IF k = 0 THEN 1 ELSE 10 * Pow10(k - 1)

IndexOf(seq, s, from) ==
    LET hits == {i \in from..Len(seq) : seq[i].ty = "sym" /\ seq[i].s = s}
    IN  IF hits = {} THEN 0 ELSE CHOOSE i \in hits : \A j \in hits : i <= j

\* a JSON number of the form digits "." digits, as millionths
ParseNumber(ts) ==
    LET dot == IndexOf(ts, ".", 1)
        ip == SubSeq(ts, 1, dot - 1)
        fp == SubSeq(ts, dot + 1, Len(ts))
    IN  IF dot < 2 \/ dot = Len(ts) \/ Len(fp) > 6 THEN None
        ELSE IF \E i \in 1..Len(ip) : ~IsDigit(ip[i]) THEN None
        ELSE IF \E i \in 1..Len(fp) : ~IsDigit(fp[i]) THEN None
        ELSE Some(DigitsValue(ip) * Million + DigitsValue(fp) * Pow10(6 - Len(fp)))

\* serde_json::to_string_pretty of an IkunCodeCache
to_string_pretty(cache) ==
    <<Sym("{"), Sym("cost:")>> \o NumberText(cache.cost)
    \o <<Sym(","), Sym("balance:")>> \o NumberText(cache.balance)
    \o <<Sym(","), Sym("cached_at:"), cache.cached_at, Sym("}")>>

\* serde_json::from_str::<IkunCodeCache>
from_str(content) ==
    LET n == Len(content)
        c1 == IndexOf(content, ",", 1)
        c2 == IF c1 = 0 THEN 0 ELSE IndexOf(content, ",", c1 + 1)
    IN  IF n < 9 \/ c1 = 0 \/ c2 = 0 THEN None
        ELSE IF content[1] # Sym("{") \/ content[2] # Sym("cost:")
                \/ content[c1 + 1] # Sym("balance:")
                \/ c2 + 3 # n
                \/ content[c2 + 1] # Sym("cached_at:")
                \/ content[c2 + 2].ty # "str"
                \/ content[n] # Sym("}")
             THEN None
        ELSE LET cost == ParseNumber(SubSeq(content, 3, c1 - 1))
                 balance == ParseNumber(SubSeq(content, c1 + 2, c2 - 1))
             IN  IF ~cost.some \/ ~balance.some THEN None
                 ELSE Some([cost |-> cost.v, balance |-> balance.v,
                            cached_at |-> content[c2 + 2]])

---------------------------------------------------------------------------
(* Configuration, as Config::load hands it to collect *)

U64(hi, lo) == [hi |-> hi, lo |-> lo]

\* a value of the options map: absent, not a non-negative integer, or a u64
OptAbsent == [ty |-> "absent", hi |-> 0, lo |-> 0]

OptOther == [ty |-> "other", hi |-> 0, lo |-> 0]

OptU64(hi, lo) == [ty |-> "u64", hi |-> hi, lo |-> lo]

Config(token, id, has_segment, timeout, cache_duration) ==
    [ok |-> TRUE, user_token |-> token, user_id |-> id, has_segment |-> has_segment,
     timeout |-> timeout, cache_duration |-> cache_duration]

\* the minimal theme's ikuncode entry: options {"timeout": 2}
MinimalThemeConfig == Config("tok", "42", TRUE, OptU64(0, 2), OptAbsent)

\* what Config::load can hand over: a failure, empty credentials, no entry for the
\* segment, and entries whose options are absent, of another type, or integers
Configs ==
    {[Config("tok", "42", FALSE, OptAbsent, OptAbsent) EXCEPT !.ok = FALSE],
     Config("", "42", TRUE, OptAbsent, OptAbsent),
     Config("tok", "", TRUE, OptU64(0, 2), OptU64(0, 1)),
     Config("", "", TRUE, OptU64(0, 2), OptAbsent),
     Config("tok", "42", FALSE, OptAbsent, OptAbsent),
     MinimalThemeConfig,
     Config("tok", "42", TRUE, OptOther, OptOther),
     Config("tok", "42", TRUE, OptU64(0, 2), OptU64(0, 0)),
     Config("tok", "42", TRUE, OptU64(0, 2), OptU64(0, 1)),
     Config("tok", "42", TRUE, OptU64(0, 2), OptU64(1, 0))}

\* serde_json::Value::as_u64
as_u64(v) == IF v.ty = "u64" THEN Some(U64(v.hi, v.lo)) ELSE None

\* the option taken as it is whenever it is present, whatever its type
option_or_unchecked(config, opt, default) ==
    IF config.has_segment /\ opt.ty # "absent" THEN U64(opt.hi, opt.lo)
    ELSE U64(0, default)

\* segment_config.and_then(|sc| sc.options.get(key)).and_then(|v| v.as_u64())
\*     .unwrap_or(default)
option_or(config, opt, default) ==
    IF config.has_segment /\ as_u64(opt).some THEN as_u64(opt).v ELSE U64(0, default)

\* `x as i64` of a u64: the bit at 2^63 becomes the sign
as_i64(u) == [hi |-> -u.hi, lo |-> u.lo]

\* a < x for an i64 a of small magnitude (far below 2^63) and an i64 x
lt_i64(a, x) == IF x.hi = 0 THEN a < x.lo ELSE FALSE

---------------------------------------------------------------------------
(* The cache store *)

get_cache_path == home

\* is_cache_valid with the else branch answering true
is_cache_valid_unparsed_true(cache, cache_duration, utc_now) ==
    LET cached_at == parse_from_rfc3339(cache.cached_at)
    IN  IF cached_at.ok
        THEN lt_i64(num_seconds(utc_now - with_timezone_utc(cached_at)),
                    as_i64(cache_duration))
        ELSE TRUE

is_cache_valid(cache, cache_duration, utc_now) ==
    LET cached_at == parse_from_rfc3339(cache.cached_at)
    IN  IF cached_at.ok
        THEN lt_i64(num_seconds(utc_now - with_timezone_utc(cached_at)),
                    as_i64(cache_duration))
        ELSE FALSE

\* a write of bytes at offset 0 of a file that holds old: what lies beyond stays
WriteAt0(old, bytes) == bytes \o SubSeq(old, Len(bytes) + 1, Len(old))

---------------------------------------------------------------------------
(* The remote API *)

\* the quotas a successful stat response and a successful user response carry
StatQuotas == {1000000, 1234567}

UserQuotas == {1234567, 2500000}

\* what a query can meet: no response, a body that is not the expected JSON, a
\* response with success false, a response with success true
Responses(quotas) ==
    {[kind |-> "transport", quota |-> 0], [kind |-> "malformed", quota |-> 0],
     [kind |-> "unsuccessful", quota |-> 250000]}
    \cup [kind : {"ok"}, quota : quotas]

\* the chain without .filter(|r| r.success)
QueryValueUnfiltered(r) ==
    IF r.kind \in {"ok", "unsuccessful"} THEN r.quota * MicroPerQuota ELSE 0

\* .call().ok().and_then(into_json).filter(success).map(quota / 500000).unwrap_or(0.0)
QueryValue(r) == IF r.kind = "ok" THEN r.quota * MicroPerQuota ELSE 0

---------------------------------------------------------------------------
(* What collect returns *)

\* the amount cut to whole cents instead of rounded
Cents_truncated(micro) == micro \div 10000

\* the amount in cents as {:.2} rounds it: to the nearest cent.  An f64 that is a
\* decimal midpoint only approximately rounds to the side it lies on; the amounts
\* of this model are never at a midpoint, where the choice below is half-to-even.
Cents(micro) ==
    LET q == micro \div 10000
        r == micro % 10000
    IN  IF r > 5000 \/ (r = 5000 /\ q % 2 = 1) THEN q + 1 ELSE q

\* format!("{:.2}", amount)
Fixed2(micro) ==
    NatDigits(Cents(micro) \div 100) \o <<Sym(".")>> \o PaddedDigits(Cents(micro) % 100, 2)

\* line 171: format!("ikuncode <daily cost> ${:.2} <balance> ${:.2}", cost, balance);
\* the CJK words are written by their code points
primary(cost, balance) ==
    <<Sym("ikuncode U+672C U+65E5 U+6D88 U+8D39 $")>> \o Fixed2(cost)
    \o <<Sym(" U+4F59 U+989D $")>> \o Fixed2(balance)

\* collect returned None
NoRecord == [kind |-> "none", cost |-> 0, balance |-> 0, primary |-> <<>>]

\* line 127: the fixed string returned without credentials
Placeholder ==
    [kind |-> "placeholder", cost |-> 0, balance |-> 0,
     primary |-> <<Sym("ikuncode U+672C U+65E5 U+6D88 U+8D39 $- U+4F59 U+989D $-")>>]

\* collect did not return: a panic unwound through it
Panicked == [kind |-> "panic", cost |-> 0, balance |-> 0, primary |-> <<>>]

\* lines 171-177: the SegmentData built from (cost, balance)
Display(cost, balance) ==
    [kind |-> "data", cost |-> cost, balance |-> balance,
     primary |-> primary(cost, balance)]

NoIo ==
    [config_ok |-> FALSE, user_token |-> "", user_id |-> "",
     has_segment |-> FALSE, timeout_opt |-> OptAbsent, cache_duration_opt |-> OptAbsent,
     read |-> FALSE,
     found |-> FALSE, raw |-> None, checked_at |-> 0, stamped_at |-> 0,
     use_cached |-> FALSE, fetch_called |-> FALSE, net |-> 0,
     stat |-> "none", user |-> "none", stat_quota |-> 0, user_quota |-> 0,
     wrote |-> FALSE, saved |-> FALSE]

NoConf == [timeout |-> U64(0, 0), cache_duration |-> U64(0, 0)]

NoCache == [cost |-> 0, balance |-> 0, cached_at |-> GarbageStr]

\* the gate with && in place of ||
credentials_both_missing(config) == config.user_token = "" /\ config.user_id = ""

\* line 125: the credential gate
credentials_missing(config) == config.user_token = "" \/ config.user_id = ""

\* the record with cost and balance exchanged
new_cache_swapped(cost, balance, utc_now) ==
    [cost |-> balance, balance |-> cost, cached_at |-> to_rfc3339(utc_now)]

\* lines 160-164: the record handed to save_cache
new_cache(cost, balance, utc_now) ==
    [cost |-> cost, balance |-> balance, cached_at |-> to_rfc3339(utc_now)]

---------------------------------------------------------------------------
(* The cache files a first invocation can find *)

OldRecord(cached_at) ==
    to_string_pretty([cost |-> 1500000, balance |-> 3250000, cached_at |-> cached_at])

InitFiles ==
    {[exists |-> FALSE, content |-> <<>>],
     [exists |-> TRUE, content |-> <<Sym("{"), Sym("cost:")>>],
     [exists |-> TRUE, content |-> OldRecord(GarbageStr)],
     [exists |-> TRUE, content |-> OldRecord(Rfc3339(-1, 0))],
     [exists |-> TRUE, content |-> OldRecord(Rfc3339(-TicksPerSec, 3600))],
     [exists |-> TRUE, content |-> OldRecord(Rfc3339(1, 0))]}

Init ==
    /\ now = 0
    /\ home \in BOOLEAN
    /\ file \in InitFiles
    /\ ~home => ~file.exists
    /\ pc = [p \in Procs |-> "idle"]
    /\ conf = [p \in Procs |-> NoConf]
    /\ cached_data = [p \in Procs |-> None]
    /\ fetched = [p \in Procs |-> None]
    /\ pending = [p \in Procs |-> NoCache]
    /\ result = [p \in Procs |-> NoRecord]
    /\ io = [p \in Procs |-> NoIo]
    /\ lastWriter = 0
    /\ lastSave = None

---------------------------------------------------------------------------
(* collect, step by step; the slots in `active` may run *)

\* lines 122-146: load the configuration, the credential gate, the two options
Begin(p, config) ==
    /\ pc[p] \in {"idle", "done"}
    /\ cached_data' = [cached_data EXCEPT ![p] = None]
    /\ fetched' = [fetched EXCEPT ![p] = None]
    /\ pending' = [pending EXCEPT ![p] = NoCache]
    /\ io' = [io EXCEPT ![p] = [NoIo EXCEPT !.config_ok = config.ok,
                                           !.user_token = config.user_token,
                                           !.user_id = config.user_id,
                                           !.has_segment = config.has_segment,
                                           !.timeout_opt = config.timeout,
                                           !.cache_duration_opt = config.cache_duration]]
    /\ IF ~config.ok
       THEN /\ pc' = [pc EXCEPT ![p] = "done"]
            /\ result' = [result EXCEPT ![p] = NoRecord]
            /\ conf' = [conf EXCEPT ![p] = NoConf]
       ELSE IF credentials_missing(config)
       THEN /\ pc' = [pc EXCEPT ![p] = "done"]
            /\ result' = [result EXCEPT ![p] = Placeholder]
            /\ conf' = [conf EXCEPT ![p] = NoConf]
       ELSE /\ pc' = [pc EXCEPT ![p] = "load"]
            /\ result' = [result EXCEPT ![p] = NoRecord]
            /\ conf' = [conf EXCEPT ![p] =
                  [timeout |-> option_or(config, config.timeout, DefaultTimeout),
                   cache_duration |->
                       option_or(config, config.cache_duration, DefaultCacheDuration)]]
    /\ lastSave' = IF lastSave.some /\ pc'[p] = "load"
                       /\ lastSave.v.d = conf'[p].cache_duration
                   THEN lastSave ELSE None
    /\ UNCHANGED <<now, home, file, lastWriter>>

\* use_cached with unwrap_or(true)
use_cached_or_true(cached, cache_duration, utc_now) ==
    IF cached.some THEN is_cache_valid(cached.v, cache_duration, utc_now) ELSE TRUE

\* lines 149-152: cached_data.as_ref().map(|c| is_cache_valid(c, d)).unwrap_or(false)
use_cached_of(cached, cache_duration, utc_now) ==
    IF cached.some THEN is_cache_valid(cached.v, cache_duration, utc_now) ELSE FALSE

\* the cached pair taken in the wrong order
unwrap_cached_swapped(cached) ==
    IF cached.some THEN Display(cached.v.balance, cached.v.cost) ELSE Panicked

\* lines 155-156: cached_data.unwrap(), a panic on None, then (cost, balance)
unwrap_cached(cached) ==
    IF cached.some THEN Display(cached.v.cost, cached.v.balance) ELSE Panicked

\* the arm returning None when the save failed, as if save_cache's error were
\* propagated
fetched_arm_save_checked(cost, balance, save_ok) ==
    IF save_ok THEN Display(cost, balance) ELSE NoRecord

\* lines 159-166: once save_cache has returned, whatever it did, the arm yields
\* (cost, balance)
fetched_arm(cost, balance, save_ok) == Display(cost, balance)

\* load_cache handing out an empty record where the file cannot be read or parsed
load_cache_default_on_failure(read_ok) ==
    IF get_cache_path /\ file.exists /\ read_ok /\ from_str(file.content).some
    THEN from_str(file.content)
    ELSE Some(NoCache)

\* load_cache: read_to_string of the cache path, then from_str
load_cache(read_ok) ==
    IF get_cache_path /\ file.exists /\ read_ok THEN from_str(file.content) ELSE None

\* lines 148-156: load the cache, decide use_cached, return the cached values
Load(p, read_ok) ==
    /\ pc[p] = "load"
    /\ LET loaded == load_cache(read_ok)
           use_cached == use_cached_of(loaded, conf[p].cache_duration, now)
       IN  /\ cached_data' = [cached_data EXCEPT ![p] = loaded]
           /\ io' = [io EXCEPT ![p].read = get_cache_path,
                               ![p].found = file.exists,
                               ![p].raw = IF get_cache_path /\ file.exists /\ read_ok
                                          THEN Some(file.content) ELSE None,
                               ![p].checked_at = now,
                               ![p].use_cached = use_cached]
           /\ IF use_cached
              THEN /\ result' = [result EXCEPT ![p] = unwrap_cached(loaded)]
                   /\ pc' = [pc EXCEPT ![p] = "done"]
              ELSE /\ result' = result
                   /\ pc' = [pc EXCEPT ![p] = "fetch"]
    /\ UNCHANGED <<now, home, file, conf, fetched, pending, lastWriter, lastSave>>

\* fetch_data: None when the local midnight is no single instant, else the two
\* queries, each degrading to 0.0 on its own
fetch_data(midnight_single, stat, user) ==
    IF ~midnight_single THEN None
    ELSE Some([cost |-> QueryValue(stat), balance |-> QueryValue(user)])

\* lines 157-168: call fetch_data; on None fall back to the loaded record or return
\* None; on Some build the record to save (cached_at: Utc::now())
Fetch(p, midnight_single, stat, user) ==
    /\ pc[p] = "fetch"
    /\ LET got == fetch_data(midnight_single, stat, user)
       IN  /\ fetched' = [fetched EXCEPT ![p] = got]
           /\ io' = [io EXCEPT ![p].fetch_called = TRUE,
                               ![p].net = IF midnight_single THEN 2 ELSE 0,
                               ![p].stat = IF midnight_single THEN stat.kind ELSE "none",
                               ![p].user = IF midnight_single THEN user.kind ELSE "none",
                               ![p].stat_quota = IF midnight_single THEN stat.quota ELSE 0,
                               ![p].user_quota = IF midnight_single THEN user.quota ELSE 0]
           /\ IF got.some
              THEN /\ pc' = [pc EXCEPT ![p] = "save"]
                   /\ result' = result
              ELSE /\ pc' = [pc EXCEPT ![p] = "done"]
                   /\ result' = [result EXCEPT ![p] =
                         IF cached_data[p].some
                         THEN Display(cached_data[p].v.cost, cached_data[p].v.balance)
                         ELSE NoRecord]
    /\ UNCHANGED <<now, home, file, conf, cached_data, pending, lastWriter, lastSave>>

\* save_cache up to the open of fs::write: the record gets cached_at = now; with a
\* cache path and a successful open the file exists and is truncated to nothing
Save(p, open_ok) ==
    /\ pc[p] = "save"
    /\ LET cache == new_cache(fetched[p].v.cost, fetched[p].v.balance, now)
       IN  /\ pending' = [pending EXCEPT ![p] = cache]
           /\ IF get_cache_path /\ open_ok
              THEN /\ file' = [exists |-> TRUE, content |-> <<>>]
                   /\ lastSave' = None
                   /\ io' = [io EXCEPT ![p].wrote = TRUE, ![p].stamped_at = now]
                   /\ pc' = [pc EXCEPT ![p] = "write"]
                   /\ result' = result
              ELSE /\ file' = file
                   /\ lastSave' = lastSave
                   /\ io' = [io EXCEPT ![p].stamped_at = now]
                   /\ pc' = [pc EXCEPT ![p] = "done"]
                   /\ result' = [result EXCEPT ![p] =
                         fetched_arm(fetched[p].v.cost, fetched[p].v.balance, FALSE)]
    /\ UNCHANGED <<now, home, conf, cached_data, fetched, lastWriter>>

\* the write_all of fs::write, at offset 0 of the descriptor opened in Save, and
\* lines 165-177: return the fetched values whatever the write did
Write(p, write_ok) ==
    /\ pc[p] = "write"
    /\ IF write_ok
       THEN /\ file' = [file EXCEPT !.content = WriteAt0(@, to_string_pretty(pending[p]))]
            /\ io' = [io EXCEPT ![p].saved = TRUE]
            /\ lastWriter' = p
            /\ lastSave' = Some([at |-> io[p].stamped_at, d |-> conf[p].cache_duration])
       ELSE UNCHANGED <<file, io, lastWriter, lastSave>>
    /\ pc' = [pc EXCEPT ![p] = "done"]
    /\ result' = [result EXCEPT ![p] =
          fetched_arm(fetched[p].v.cost, fetched[p].v.balance, write_ok)]
    /\ UNCHANGED <<now, home, conf, cached_data, fetched, pending>>

\* the wall clock advances
Tick ==
    /\ now < MaxNow
    /\ now' = now + 1
    /\ UNCHANGED <<home, file, pc, conf, cached_data, fetched, pending, result, io, lastWriter,
                   lastSave>>

Step(p) ==
    \/ \E config \in Configs : Begin(p, config)
    \/ \E read_ok \in BOOLEAN : Load(p, read_ok)
    \/ \E midnight_single \in BOOLEAN, stat \in Responses(StatQuotas),
          user \in Responses(UserQuotas) :
           Fetch(p, midnight_single, stat, user)
    \/ \E open_ok \in BOOLEAN : Save(p, open_ok)
    \/ \E write_ok \in BOOLEAN : Write(p, write_ok)

\* invocations one after the other: only slot 1 runs
Next == Step(1) \/ Tick

Spec == Init /\ [][Next]_vars

\* overlapping invocations: both slots run, interleaved at the file operations,
\* while the clock stands still, the home directory exists and no call fails
\* but the stat query
ConcConfigs ==
    {Config("tok", "42", TRUE, OptU64(0, 2), OptU64(0, 0)),
     Config("tok", "42", TRUE, OptU64(0, 2), OptAbsent)}

ConcStat == {[kind |-> "transport", quota |-> 0], [kind |-> "ok", quota |-> 5000000]}

ConcUser == {[kind |-> "ok", quota |-> 250000]}

StepConc(p) ==
    \/ \E config \in ConcConfigs : Begin(p, config)
    \/ Load(p, TRUE)
    \/ \E stat \in ConcStat, user \in ConcUser : Fetch(p, TRUE, stat, user)
    \/ Save(p, TRUE)
    \/ Write(p, TRUE)

InitConc ==
    /\ Init
    /\ home
    /\ file \in {[exists |-> FALSE, content |-> <<>>],
                 [exists |-> TRUE, content |-> OldRecord(Rfc3339(-1, 0))]}

NextConc == \E p \in Procs : StepConc(p)

SpecConc == InitConc /\ [][NextConc]_vars

---------------------------------------------------------------------------
(* Vocabulary of the properties *)

\* slot p's invocation loaded a configuration with both credentials non-empty
Authenticated(p) == io[p].config_ok /\ io[p].user_token # "" /\ io[p].user_id # ""

Finished(p) == pc[p] = "done"

\* the loaded record's cached_at parses
LoadedParses(p) ==
    cached_data[p].some /\ parse_from_rfc3339(cached_data[p].v.cached_at).ok

\* the loaded record's age in whole seconds when its validity was decided
LoadedAge(p) ==
    num_seconds(io[p].checked_at
                - with_timezone_utc(parse_from_rfc3339(cached_data[p].v.cached_at)))

\* a < d for an age a and a u64 d = hi * 2^63 + lo, as numbers
AgeBelow(a, d) == d.hi = 1 \/ a < d.lo

\* the loaded record is valid as the specification defines it: age < cache_duration
ValidByAge(p) == LoadedParses(p) /\ AgeBelow(LoadedAge(p), conf[p].cache_duration)

LoadedValues(p) == Display(cached_data[p].v.cost, cached_data[p].v.balance)

\* both HTTP requests of slot p's fetch failed at the transport level
FetchFailedEntirely(p) ==
    io[p].fetch_called /\ io[p].stat = "transport" /\ io[p].user = "transport"

---------------------------------------------------------------------------
(* C1 *)

\* C1: an authenticated invocation whose loaded record is valid (age in seconds
\* below cache_duration) issues no network request and returns exactly the
\* record's cost and balance.
C1_ValidCacheIsUsed ==
    \A p \in Procs :
        (Finished(p) /\ Authenticated(p) /\ ValidByAge(p))
            => (io[p].net = 0 /\ result[p] = LoadedValues(p))

---------------------------------------------------------------------------
(* C2 *)

\* C2: stale fallback: an authenticated invocation whose loaded record is not
\* valid and whose two HTTP requests both fail at the transport level returns the
\* loaded record's cost and balance.
C2_StaleFallbackOnTransportFailure ==
    \A p \in Procs :
        (Finished(p) /\ Authenticated(p) /\ cached_data[p].some /\ FetchFailedEntirely(p))
            => result[p] = LoadedValues(p)

---------------------------------------------------------------------------
(* C3 *)

\* C3: unavailable: an authenticated invocation that loaded no record and whose
\* two HTTP requests both fail at the transport level returns absence.
C3_UnavailableOnTransportFailure ==
    \A p \in Procs :
        (Finished(p) /\ Authenticated(p) /\ ~cached_data[p].some /\ FetchFailedEntirely(p))
            => result[p] = NoRecord

---------------------------------------------------------------------------
(* C4 *)

\* C4: the cache file changes only in a step of an invocation whose fetch
\* succeeded (a fetch whose two requests both fail at the transport level has
\* failed), and the file is never deleted.
C4_FileChangesOnlyAfterSuccessfulFetch ==
    [][/\ file' # file =>
             \E p \in Procs : /\ pc[p] \in {"save", "write"}
                               /\ fetched[p].some
                               /\ ~FetchFailedEntirely(p)
       /\ file.exists => file'.exists]_vars

---------------------------------------------------------------------------
(* C5 *)

\* a complete serialized cache record
IsRecordText(content) ==
    from_str(content).some /\ to_string_pretty(from_str(content).v) = content

\* C5: no torn reads: every content a load reads from the cache file is a
\* complete record text (the previous one or the new one), never a half-written
\* file.  (Under SpecConc the first file is absent or a complete record.)
C5_NoTornRead ==
    \A p \in Procs : io[p].raw.some => IsRecordText(io[p].raw.v)

---------------------------------------------------------------------------
(* C6 *)

\* C6: last writer wins: once both overlapping invocations have finished, both
\* having written, the file holds exactly the record of the invocation whose
\* write finished last.
C6_LastWriterWins ==
    (\A p \in Procs : Finished(p) /\ io[p].saved)
        => file = [exists |-> TRUE, content |-> to_string_pretty(pending[lastWriter])]

---------------------------------------------------------------------------
(* C7 *)

\* C7: for a loaded record whose cached_at parses, with age a in whole seconds,
\* is_cache_valid(record, d) is true exactly when a < d.
C7_ValidIffAgeBelowDuration ==
    \A p \in Procs :
        (pc[p] \notin {"idle", "load"} /\ Authenticated(p) /\ LoadedParses(p))
            => (io[p].use_cached <=> AgeBelow(LoadedAge(p), conf[p].cache_duration))

---------------------------------------------------------------------------
(* C8 *)

\* C8: a loaded record whose cached_at is no RFC3339 timestamp is invalid for
\* every cache_duration: the invocation does not take the use-cached path and
\* goes on to the fetch step.
C8_UnparsableTimestampRefetches ==
    \A p \in Procs :
        (pc[p] \notin {"idle", "load"} /\ Authenticated(p)
         /\ cached_data[p].some /\ ~LoadedParses(p))
            => /\ ~io[p].use_cached
               /\ pc[p] \in {"fetch", "save", "write", "done"}
               /\ pc[p] # "fetch" => io[p].fetch_called

\* an invocation that loaded a record with an unparsable cached_at, under a
\* non-zero cache_duration, has fetched
C8_Witness ==
    \E p \in Procs :
        /\ Finished(p) /\ Authenticated(p)
        /\ cached_data[p].some /\ ~LoadedParses(p)
        /\ conf[p].cache_duration = U64(0, DefaultCacheDuration)
        /\ io[p].fetch_called /\ io[p].net = 2

---------------------------------------------------------------------------
(* C9 *)

\* an invocation whose user_token or user_id is empty has returned the placeholder
\* in its first step, without reading or writing the cache file and without a
\* network request
GateReturnsPlaceholder ==
    \A p \in Procs :
        (io[p].config_ok /\ (io[p].user_token = "" \/ io[p].user_id = ""))
            => /\ Finished(p)
               /\ result[p] = Placeholder
               /\ ~io[p].read /\ ~io[p].raw.some /\ ~io[p].wrote /\ ~io[p].saved
               /\ ~io[p].fetch_called /\ io[p].net = 0

\* the step of an invocation with an empty credential leaves the file as it is
GateLeavesFile ==
    \A p \in Procs :
        (io'[p] # io[p] /\ io'[p].config_ok
         /\ (io'[p].user_token = "" \/ io'[p].user_id = ""))
            => file' = file

\* C9: gate: whenever user_token or user_id is empty, collect returns the fixed
\* placeholder, and that invocation neither reads nor writes the cache file
\* and issues no network request.
C9_Gate == []GateReturnsPlaceholder /\ [][GateLeavesFile]_vars

\* an invocation with only the user_id empty has returned the placeholder while a
\* cache file exists
C9_Witness ==
    \E p \in Procs :
        /\ Finished(p) /\ io[p].config_ok
        /\ io[p].user_token # "" /\ io[p].user_id = ""
        /\ result[p] = Placeholder
        /\ file.exists

---------------------------------------------------------------------------
(* C10 *)

\* the cache file holds a record with slot p's fetched values, stamped during
\* p's invocation
FileHoldsFetched(p) ==
    LET rec == from_str(file.content)
    IN  /\ file.exists
        /\ rec.some
        /\ rec.v.cost = fetched[p].v.cost
        /\ rec.v.balance = fetched[p].v.balance
        /\ parse_from_rfc3339(rec.v.cached_at).ok
        /\ with_timezone_utc(parse_from_rfc3339(rec.v.cached_at)) >= io[p].checked_at
        /\ with_timezone_utc(parse_from_rfc3339(rec.v.cached_at)) <= now

\* C10 as stated: after an authenticated invocation whose cache was stale or
\* absent and whose fetch returned values, the file holds the fetched values
\* with a fresh cached_at, and the fetched values are returned.
C10_FetchedIsCached ==
    \A p \in Procs :
        (Finished(p) /\ Authenticated(p) /\ fetched[p].some)
            => (FileHoldsFetched(p)
                /\ result[p] = Display(fetched[p].v.cost, fetched[p].v.balance))

\* C10 amended: the same, for an invocation whose write of the cache file
\* succeeded (cache path available, open and write without error), no other
\* invocation overlapping.
C10_FetchedIsCachedWhenSaved ==
    \A p \in Procs :
        (Finished(p) /\ Authenticated(p) /\ fetched[p].some /\ io[p].saved)
            => (FileHoldsFetched(p)
                /\ result[p] = Display(fetched[p].v.cost, fetched[p].v.balance))

\* an invocation over a stale record has fetched non-zero values, saved them and
\* returned, the clock having moved since its load
C10_Witness ==
    \E p \in Procs :
        /\ Finished(p) /\ Authenticated(p) /\ cached_data[p].some
        /\ fetched[p].some /\ fetched[p].v.cost > 0 /\ fetched[p].v.balance > 0
        /\ io[p].saved
        /\ now > io[p].checked_at
        /\ FileHoldsFetched(p)

---------------------------------------------------------------------------
(* C11 *)

\* what collect can hand back to the renderer: absence, the placeholder, or a
\* record of two amounts
Returned(p) == result[p].kind \in {"none", "placeholder", "data"}

\* C11: no abrupt failure: whatever the configuration, the cache file, the
\* network and the save do, collect never panics and an unfinished invocation
\* can always take its next step; a finished one has returned a display record
\* or absence; the unwrap on the use-cached path is reached only with a loaded
\* record.
C11_NoAbruptFailure ==
    \A p \in Procs :
        /\ result[p].kind # "panic"
        /\ Finished(p) => Returned(p)
        /\ pc[p] \in {"idle", "load", "fetch", "save", "write", "done"}
        /\ ~Finished(p) => ENABLED Step(p)
        /\ io[p].use_cached => cached_data[p].some

\* an invocation over a corrupt cache file, with a failed stat query and a failed
\* write, has returned a record
C11_Witness ==
    \E p \in Procs :
        /\ Finished(p) /\ Authenticated(p)
        /\ io[p].raw.some /\ ~cached_data[p].some
        /\ io[p].stat = "transport"
        /\ io[p].wrote /\ ~io[p].saved
        /\ result[p].kind = "data"

---------------------------------------------------------------------------
(* C12 *)

\* amount (millionths) is quota / 500000: the whole units and the remainder agree
IsQuotaOver500000(amount, quota) ==
    /\ amount \div Million = quota \div QuotaPerUnit
    /\ (amount % Million) \div (Million \div QuotaPerUnit) = quota % QuotaPerUnit
    /\ (amount % Million) % (Million \div QuotaPerUnit) = 0

\* C12: independent degradation: in a fetch in which exactly one of the two
\* queries fails (transport error, malformed body or success flag false) the fetch
\* succeeds, the failed query's value is 0 and the other value is its
\* response's quota divided by 500000.
C12_IndependentDegradation ==
    \A p \in Procs :
        (io[p].net = 2 /\ ((io[p].stat = "ok") # (io[p].user = "ok")))
            => /\ fetched[p].some
               /\ IF io[p].stat = "ok"
                  THEN /\ IsQuotaOver500000(fetched[p].v.cost, io[p].stat_quota)
                       /\ fetched[p].v.balance = 0
                  ELSE /\ fetched[p].v.cost = 0
                       /\ IsQuotaOver500000(fetched[p].v.balance, io[p].user_quota)

\* a fetch whose stat query answered success = false with a non-zero quota and
\* whose user query succeeded
C12_Witness ==
    \E p \in Procs :
        /\ io[p].net = 2
        /\ io[p].stat = "unsuccessful" /\ io[p].stat_quota > 0
        /\ io[p].user = "ok"
        /\ fetched[p].some /\ fetched[p].v.cost = 0 /\ fetched[p].v.balance > 0

---------------------------------------------------------------------------
(* C13 *)

\* C13: a failed save does not affect the render: an invocation whose fetch
\* returned values and whose cache file was not written (no home directory, the
\* open or the write failed) still returns the fetched cost and balance.
C13_FailedSaveStillDisplays ==
    \A p \in Procs :
        (Finished(p) /\ Authenticated(p) /\ fetched[p].some /\ ~io[p].saved)
            => result[p] = Display(fetched[p].v.cost, fetched[p].v.balance)

\* an invocation that fetched non-zero values and whose write failed after the
\* open has returned them
C13_Witness ==
    \E p \in Procs :
        /\ Finished(p) /\ Authenticated(p)
        /\ fetched[p].some /\ fetched[p].v.cost > 0 /\ fetched[p].v.balance > 0
        /\ io[p].wrote /\ ~io[p].saved
        /\ result[p] = Display(fetched[p].v.cost, fetched[p].v.balance)

---------------------------------------------------------------------------
(* C14 *)

\* slot p's load found no usable file: no home directory, no file, a read error,
\* or content that is no cache record
LoadFoundNothing(p) == ~io[p].raw.some \/ ~from_str(io[p].raw.v).some

\* C14: a missing or corrupt cache file is "no cache": for an authenticated
\* invocation past its load step that found no home directory, no file, a read
\* error or unparsable content, load returned nothing without raising, the cache
\* was not used, the invocation went on to the fetch step, and it ends as with no
\* file at all (the fetched values, or no record when the fetch yields nothing).
C14_BadCacheIsNoCache ==
    \A p \in Procs :
        (Authenticated(p) /\ pc[p] \notin {"idle", "load"} /\ LoadFoundNothing(p))
            => /\ ~cached_data[p].some
               /\ ~io[p].use_cached
               /\ result[p].kind # "panic"
               /\ pc[p] \in {"fetch", "save", "write", "done"}
               /\ pc[p] # "fetch" => io[p].fetch_called
               /\ (Finished(p) /\ ~fetched[p].some) => result[p] = NoRecord
               /\ (Finished(p) /\ fetched[p].some)
                     => result[p] = Display(fetched[p].v.cost, fetched[p].v.balance)

\* an invocation that read a file whose content is no cache record and went on to
\* fetch
C14_Witness ==
    \E p \in Procs :
        /\ Finished(p) /\ Authenticated(p)
        /\ io[p].raw.some /\ ~from_str(io[p].raw.v).some
        /\ ~cached_data[p].some
        /\ io[p].fetch_called /\ io[p].net = 2

---------------------------------------------------------------------------
(* C15 *)

\* text shows the amount micro (millionths) with 2 decimal places: digits, a
\* point, exactly two digits, and a value within half a cent of the amount
ShownWith2Decimals(text, micro) ==
    /\ Len(text) >= 4
    /\ IndexOf(text, ".", 1) = Len(text) - 2
    /\ ParseNumber(text).some
    /\ 2 * ParseNumber(text).v <= 2 * micro + 10000
    /\ 2 * ParseNumber(text).v >= 2 * micro - 10000

\* the primary string is the fixed words around the two amounts, each with 2
\* decimal places
PrimaryShows(text, cost, balance) ==
    \E i \in 2..Len(text) - 1 :
        /\ text[1] = Sym("ikuncode U+672C U+65E5 U+6D88 U+8D39 $")
        /\ text[i] = Sym(" U+4F59 U+989D $")
        /\ ShownWith2Decimals(SubSeq(text, 2, i - 1), cost)
        /\ ShownWith2Decimals(SubSeq(text, i + 1, Len(text)), balance)

\* every successful response's amount is its quota / 500000, and a finished
\* invocation that fetched displays the two amounts with 2 decimal places
QuotaConversion(p) ==
    /\ (fetched[p].some /\ io[p].stat = "ok")
          => IsQuotaOver500000(fetched[p].v.cost, io[p].stat_quota)
    /\ (fetched[p].some /\ io[p].user = "ok")
          => IsQuotaOver500000(fetched[p].v.balance, io[p].user_quota)
    /\ (Finished(p) /\ fetched[p].some)
          => PrimaryShows(result[p].primary, fetched[p].v.cost, fetched[p].v.balance)

\* the specification's example: credentials present, no cache file, the stat
\* query answers quota 1000000 and the user query quota 2500000
ExampleRun(p) ==
    /\ Finished(p) /\ Authenticated(p)
    /\ ~io[p].found
    /\ io[p].stat = "ok" /\ io[p].stat_quota = 1000000
    /\ io[p].user = "ok" /\ io[p].user_quota = 2500000

ExampleText ==
    <<Sym("ikuncode U+672C U+65E5 U+6D88 U+8D39 $"),
      Sym("2"), Sym("."), Sym("0"), Sym("0"),
      Sym(" U+4F59 U+989D $"),
      Sym("5"), Sym("."), Sym("0"), Sym("0")>>

ExampleYields(p) ==
    /\ result[p].kind = "data"
    /\ result[p].cost = 2 * Million /\ result[p].balance = 5 * Million
    /\ result[p].primary = ExampleText

\* the cache file holds cost 2.0 and balance 5.0
ExampleFile ==
    /\ file.exists
    /\ from_str(file.content).some
    /\ from_str(file.content).v.cost = 2 * Million
    /\ from_str(file.content).v.balance = 5 * Million

\* C15 as stated: quota / 500000 shown with 2 decimal places, and the example run
\* yields cost 2.00, balance 5.00, the primary string, and a new cache file
\* holding those values.
C15_QuotaConversion ==
    \A p \in Procs :
        /\ QuotaConversion(p)
        /\ ExampleRun(p) => (ExampleYields(p) /\ ExampleFile)

\* C15, amended: quota / 500000 shown with 2 decimal places, and the example run
\* yields cost 2.00, balance 5.00 and the primary string; the cache file holds
\* those values when the save succeeded (a home directory, the open and the
\* write).
C15_QuotaConversionWhenSaved ==
    \A p \in Procs :
        /\ QuotaConversion(p)
        /\ ExampleRun(p) => ExampleYields(p)
        /\ (ExampleRun(p) /\ io[p].saved) => ExampleFile

\* the example run has happened, has saved, and the file holds 2.0 and 5.0
C15_Witness ==
    \E p \in Procs :
        /\ ExampleRun(p) /\ io[p].saved
        /\ ExampleYields(p) /\ ExampleFile

---------------------------------------------------------------------------
(* C16 *)

\* the option is present in the segment's entry and is a non-negative integer
IsInteger(p, opt) == io[p].has_segment /\ opt.ty = "u64"

\* C16: for an invocation past the credential gate the effective timeout is the
\* "timeout" option when it is present and a non-negative integer and 5
\* otherwise, the effective cache_duration is the "cache_duration" option when it
\* is present and a non-negative integer and 180 otherwise, also with no entry
\* for the segment; the minimal theme's entry gives timeout 2 and cache_duration
\* 180.
C16_DefensiveOptions ==
    \A p \in Procs :
        (Authenticated(p) /\ pc[p] # "idle")
            => /\ IsInteger(p, io[p].timeout_opt)
                     => /\ conf[p].timeout.hi = io[p].timeout_opt.hi
                        /\ conf[p].timeout.lo = io[p].timeout_opt.lo
               /\ ~IsInteger(p, io[p].timeout_opt)
                     => conf[p].timeout = [hi |-> 0, lo |-> 5]
               /\ IsInteger(p, io[p].cache_duration_opt)
                     => /\ conf[p].cache_duration.hi = io[p].cache_duration_opt.hi
                        /\ conf[p].cache_duration.lo = io[p].cache_duration_opt.lo
               /\ ~IsInteger(p, io[p].cache_duration_opt)
                     => conf[p].cache_duration = [hi |-> 0, lo |-> 180]
               /\ (/\ io[p].has_segment
                   /\ io[p].timeout_opt = MinimalThemeConfig.timeout
                   /\ io[p].cache_duration_opt = MinimalThemeConfig.cache_duration)
                     => /\ conf[p].timeout = [hi |-> 0, lo |-> 2]
                        /\ conf[p].cache_duration = [hi |-> 0, lo |-> 180]

\* an invocation whose options are both of the wrong type has read 5 and 180, and
\* went on with them
C16_Witness ==
    \E p \in Procs :
        /\ Authenticated(p) /\ Finished(p)
        /\ io[p].has_segment
        /\ io[p].timeout_opt.ty = "other" /\ io[p].cache_duration_opt.ty = "other"
        /\ conf[p].timeout = [hi |-> 0, lo |-> 5]
        /\ conf[p].cache_duration = [hi |-> 0, lo |-> 180]

---------------------------------------------------------------------------
(* C17 *)

\* C17: round trip.  Once an invocation, not overlapped by another, has saved its
\* record (cache path available, the write succeeded), loading the file yields a
\* record with the saved cost, the saved balance, and a cached_at that parses to
\* the instant the record was stamped with.
C17_RoundTrip ==
    \A p \in Procs :
        (Finished(p) /\ io[p].saved)
            => LET loaded == load_cache(TRUE)
               IN  /\ loaded.some
                   /\ loaded.v.cost = pending[p].cost
                   /\ loaded.v.balance = pending[p].balance
                   /\ parse_from_rfc3339(loaded.v.cached_at).ok
                   /\ with_timezone_utc(parse_from_rfc3339(loaded.v.cached_at))
                         = io[p].stamped_at

\* a record with a fractional cost, stamped between two whole seconds, over a
\* file that held a longer record, has been saved and loads back
C17_Witness ==
    \E p \in Procs :
        /\ Finished(p) /\ io[p].saved
        /\ io[p].raw.some
        /\ pending[p].cost % Million # 0
        /\ pending[p].balance > 0
        /\ io[p].stamped_at % TicksPerSec # 0
        /\ load_cache(TRUE) = Some(pending[p])

---------------------------------------------------------------------------
(* C18 *)

\* the instant t1 (ticks) is earlier than at + d seconds, d = hi * 2^63 + lo
BeforeExpiry(t1, at, d) == d.hi = 1 \/ t1 < at + d.lo * TicksPerSec

\* slot p's invocation follows a successful save that the file still holds, every
\* invocation since then authenticated and with the same cache_duration, and it
\* read the file and has not itself begun to write it
FollowsSave(p) ==
    /\ Authenticated(p)
    /\ pc[p] \in {"fetch", "save", "write", "done"}
    /\ lastSave.some
    /\ ~io[p].wrote
    /\ io[p].raw.some

\* C18: request bounding.  In a sequence of non-overlapping authenticated
\* invocations with a fixed cache_duration d, after an invocation that fetched
\* and saved at time t, an invocation that reads the unmodified file at a time
\* earlier than t + d issues no network request.
C18_RequestBounding ==
    \A p \in Procs :
        (FollowsSave(p) /\ BeforeExpiry(io[p].checked_at, lastSave.v.at, lastSave.v.d))
            => io[p].net = 0

---------------------------------------------------------------------------
(* C19 *)

\* the cache file holds a record with the cost and balance slot p displayed
FileHoldsDisplayed(p) ==
    /\ file.exists
    /\ from_str(file.content).some
    /\ from_str(file.content).v.cost = result[p].cost
    /\ from_str(file.content).v.balance = result[p].balance

\* C19: display agrees with the cache.  With non-overlapping invocations, an
\* invocation that has returned numeric values (from a valid cache, from a fetch
\* whose save succeeded, or from a stale record after a fetch that yielded
\* nothing) leaves a cache file holding a record with the displayed cost and
\* balance.
C19_DisplayAgreesWithCache ==
    \A p \in Procs :
        (Finished(p) /\ result[p].kind = "data" /\ (fetched[p].some => io[p].saved))
            => FileHoldsDisplayed(p)

\* a stale record was displayed after a fetch that yielded nothing, and the file
\* still holds it
C19_Witness ==
    \E p \in Procs :
        /\ Finished(p) /\ result[p].kind = "data"
        /\ io[p].fetch_called /\ ~fetched[p].some
        /\ result[p].cost > 0 /\ result[p].cost # result[p].balance
        /\ FileHoldsDisplayed(p)

====
